---- MODULE Spec2Model ----
(***************************************************************************)
(* A model of the LS-8 style CPU emulator of src/cpu.py: the memory, the   *)
(* register file, the flags, the stack convention and the fetch-decode-    *)
(* execute loop of CPU.run with its thirteen handlers.                     *)
(*                                                                         *)
(* One action of the model is one iteration of the loop of CPU.run: the    *)
(* fetch, the handler and the advance of PC.  Python integers are          *)
(* unbounded, Python lists accept the indices -len .. len-1 and raise      *)
(* IndexError outside, and an uncaught exception ends the run where it is  *)
(* raised, keeping what the handler had already assigned.                  *)
(***************************************************************************)
EXTENDS Integers, Sequences, FiniteSets, TLC

VARIABLES
    ram,        \* self.ram: the memory cells
    registers,  \* self.registers: R0..R7, R7 is SP
    pc,         \* self.pc
    ir,         \* self.ir
    fl,         \* self.fl
    status,     \* "running", "halted" (SystemExit), "KeyError", "IndexError"
    out,        \* the values printed by PRN, in order
    steps,      \* the number of loop iterations begun
    taken,      \* history: the last handler assigned self.pc
    last,       \* history: what the last iteration fetched, and its pre-state
    prev,       \* history: the same of the iteration before it
    calls,      \* history: the CALLs not yet returned from
    spStackOnly \* history: R7 was written only as the stack pointer

vars == <<ram, registers, pc, ir, fl, status, out, steps, taken, last, prev,
          calls, spStackOnly>>

----------------------------------------------------------------------------
(* The constants of the program. *)

HLT == 1
LDI == 2
PUSH == 5
POP == 6
PRN == 7
CALL == 16
RET == 17
JMP == 20
JEQ == 21
JNE == 22
CMP == 39
ADD == 32
MUL == 34

RamSize == 255
NumRegs == 8
SPInit == 244
SP == 7

(* The number of loop iterations the model follows a run for. *)
MaxSteps == 300

Handlers == {HLT, LDI, PUSH, POP, PRN, CALL, RET, JMP, JEQ, JNE, CMP, ADD, MUL}

----------------------------------------------------------------------------
(* Python's list indexing and integer operators. *)

\* list[i] raises IndexError unless -len <= i < len
InRam(mar) == -RamSize <= mar /\ mar < RamSize
InRegs(i) == -NumRegs <= i /\ i < NumRegs
\* the cell a valid index names: a negative index counts from the end
Cell(i, len) == IF i < 0 THEN i + len ELSE i

\* x & 0x3F, x >> 6, x & 0x07, x & 0xFF on Python integers (two's complement)
OpKey(byte) == byte % 64
OpCount(byte) == byte \div 64
RegMask(byte) == byte % 8
ByteMask(x) == x % 256

\* f | bit and f & ~bit, for bit a power of two
SetBit(f, bit) == IF (f \div bit) % 2 = 1 THEN f ELSE f + bit
ClearBit(f, bit) == IF (f \div bit) % 2 = 1 THEN f - bit ELSE f

----------------------------------------------------------------------------
(* The machine as a value: what a handler reads and what it leaves. *)

Machine ==
    [ram |-> ram, registers |-> registers, pc |-> pc, fl |-> fl, out |-> out,
     status |-> "running", taken |-> FALSE]

ram_read(m, mar) == m.ram[Cell(mar, RamSize)]
ram_write(m, mar, mdr) == [m EXCEPT !.ram[Cell(mar, RamSize)] = mdr]
reg(m, i) == m.registers[Cell(i, NumRegs)]
setreg(m, i, v) == [m EXCEPT !.registers[Cell(i, NumRegs)] = v]
Raise(m, e) == [m EXCEPT !.status = e]
SetPC(m, addr) == [m EXCEPT !.pc = addr, !.taken = TRUE]

----------------------------------------------------------------------------
(* CPU.alu. *)

\* a variant of CmpFlags that sets the bit of the result and clears none
CmpFlagsNoClear(f, x, y) ==
    LET f1 == IF x = y THEN SetBit(f, 1) ELSE f
        f2 == IF x > y THEN SetBit(f1, 2) ELSE f1
    IN  IF x < y THEN SetBit(f2, 4) ELSE f2

\* the three flag updates of the CMP branch, in the order of the code
CmpFlags(f, x, y) ==
    LET f1 == IF x = y THEN SetBit(f, 1) ELSE ClearBit(f, 1)
        f2 == IF x > y THEN SetBit(f1, 2) ELSE ClearBit(f1, 2)
    IN  IF x < y THEN SetBit(f2, 4) ELSE ClearBit(f2, 4)

\* registers[reg_a] += registers[reg_b]
AddValue(x, y) == x + y

\* a variant of alu whose ADD stores the sum in reg_b
alu_into_b(m, op, reg_a, reg_b) ==
    IF op = "ADD"
    THEN IF ~InRegs(reg_a) \/ ~InRegs(reg_b)
         THEN Raise(m, "IndexError")
         ELSE setreg(m, reg_b, AddValue(reg(m, reg_a), reg(m, reg_b)))
    ELSE IF op = "CMP"
    THEN IF ~InRegs(reg_a) \/ ~InRegs(reg_b)
         THEN Raise(m, "IndexError")
         ELSE [m EXCEPT !.fl = CmpFlags(m.fl, reg(m, reg_a), reg(m, reg_b))]
    ELSE Raise(m, "Exception")

alu(m, op, reg_a, reg_b) ==
    IF op = "ADD"
    THEN IF ~InRegs(reg_a) \/ ~InRegs(reg_b)
         THEN Raise(m, "IndexError")
         ELSE setreg(m, reg_a, AddValue(reg(m, reg_a), reg(m, reg_b)))
    ELSE IF op = "CMP"
    THEN IF ~InRegs(reg_a) \/ ~InRegs(reg_b)
         THEN Raise(m, "IndexError")
         ELSE [m EXCEPT !.fl = CmpFlags(m.fl, reg(m, reg_a), reg(m, reg_b))]
    ELSE Raise(m, "Exception")

----------------------------------------------------------------------------
(* The handlers of the branch table. *)

\* a variant of hlt that returns to the loop
hlt_returns(m) == m

hlt(m) == Raise(m, "halted")

\* a variant of ldi that indexes the registers with the operand byte as it is
ldi_unmasked(m) ==
    IF ~InRam(m.pc + 2) \/ ~InRam(m.pc + 1)
    THEN Raise(m, "IndexError")
    ELSE IF ~InRegs(ram_read(m, m.pc + 1)) THEN Raise(m, "IndexError")
    ELSE setreg(m, ram_read(m, m.pc + 1), ram_read(m, m.pc + 2))

ldi(m) ==
    IF ~InRam(m.pc + 2) \/ ~InRam(m.pc + 1)
    THEN Raise(m, "IndexError")
    ELSE [m EXCEPT !.registers[RegMask(ram_read(m, m.pc + 1))] =
                        ram_read(m, m.pc + 2)]

push(m) ==
    LET m1 == [m EXCEPT !.registers[SP] = ByteMask(m.registers[SP] - 1)]
    IN  IF ~InRam(m1.pc + 1) THEN Raise(m1, "IndexError")
        ELSE LET reg_num == ram_read(m1, m1.pc + 1)
             IN  IF ~InRegs(reg_num) THEN Raise(m1, "IndexError")
                 ELSE IF ~InRam(m1.registers[SP]) THEN Raise(m1, "IndexError")
                 ELSE ram_write(m1, m1.registers[SP], reg(m1, reg_num))

pop(m) ==
    IF ~InRam(m.registers[SP]) \/ ~InRam(m.pc + 1)
    THEN Raise(m, "IndexError")
    ELSE LET value == ram_read(m, m.registers[SP])
             reg_num == ram_read(m, m.pc + 1)
         IN  IF ~InRegs(reg_num) THEN Raise(m, "IndexError")
             ELSE LET m1 == setreg(m, reg_num, value)
                  IN  [m1 EXCEPT !.registers[SP] = m1.registers[SP] + 1]

\* a variant of prn that prints the masked operand byte itself
prn_operand(m) ==
    IF ~InRam(m.pc + 1) THEN Raise(m, "IndexError")
    ELSE [m EXCEPT !.out = Append(m.out, RegMask(ram_read(m, m.pc + 1)))]

prn(m) ==
    IF ~InRam(m.pc + 1) THEN Raise(m, "IndexError")
    ELSE [m EXCEPT !.out =
              Append(m.out, m.registers[RegMask(ram_read(m, m.pc + 1))])]

call(m) ==
    LET return_addr == m.pc + 2
        m1 == [m EXCEPT !.registers[SP] = m.registers[SP] - 1]
    IN  IF ~InRam(m1.registers[SP]) THEN Raise(m1, "IndexError")
        ELSE LET m2 == ram_write(m1, m1.registers[SP], return_addr)
             IN  IF ~InRam(m2.pc + 1) THEN Raise(m2, "IndexError")
                 ELSE LET reg_num == ram_read(m2, m2.pc + 1)
                      IN  IF ~InRegs(reg_num) THEN Raise(m2, "IndexError")
                          ELSE SetPC(m2, reg(m2, reg_num))

ret(m) ==
    IF ~InRam(m.registers[SP]) THEN Raise(m, "IndexError")
    ELSE LET return_addr == ram_read(m, m.registers[SP])
         IN  SetPC([m EXCEPT !.registers[SP] = m.registers[SP] + 1],
                   return_addr)

jmp(m) ==
    IF ~InRam(m.pc + 1) THEN Raise(m, "IndexError")
    ELSE LET reg_num == ram_read(m, m.pc + 1)
         IN  IF ~InRegs(reg_num) THEN Raise(m, "IndexError")
             ELSE SetPC(m, reg(m, reg_num))

\* a variant of EqualSet that tests the whole flags register for truth
EqualSetTruthy(f) == f # 0

\* self.fl & 0x01 == True, self.fl & 0x01 == False
EqualSet(f) == f % 2 = 1
EqualClear(f) == f % 2 = 0

jeq(m) == IF EqualSet(m.fl) THEN jmp(m) ELSE m

jne(m) == IF EqualClear(m.fl) THEN jmp(m) ELSE m

cmp(m) ==
    IF ~InRam(m.pc + 1) \/ ~InRam(m.pc + 2) THEN Raise(m, "IndexError")
    ELSE alu(m, "CMP", ram_read(m, m.pc + 1), ram_read(m, m.pc + 2))

\* a variant of add that also records a zero result in the flags
add_sets_flags(m) ==
    IF ~InRam(m.pc + 1) \/ ~InRam(m.pc + 2) THEN Raise(m, "IndexError")
    ELSE LET m1 == alu(m, "ADD", ram_read(m, m.pc + 1), ram_read(m, m.pc + 2))
         IN  IF m1.status # "running" THEN m1
             ELSE [m1 EXCEPT !.fl = IF reg(m1, ram_read(m, m.pc + 1)) = 0
                                     THEN 1 ELSE 0]

add(m) ==
    IF ~InRam(m.pc + 1) \/ ~InRam(m.pc + 2) THEN Raise(m, "IndexError")
    ELSE alu(m, "ADD", ram_read(m, m.pc + 1), ram_read(m, m.pc + 2))

\* a variant of mul that adds the two registers
mul_sum(m) == [m EXCEPT !.registers[0] = m.registers[0] + m.registers[1]]

\* a variant of mul that takes its registers from the operand bytes, as add
mul_operands(m) ==
    IF ~InRam(m.pc + 1) \/ ~InRam(m.pc + 2) THEN Raise(m, "IndexError")
    ELSE LET reg_a == ram_read(m, m.pc + 1)
             reg_b == ram_read(m, m.pc + 2)
         IN  IF ~InRegs(reg_a) \/ ~InRegs(reg_b)
             THEN Raise(m, "IndexError")
             ELSE setreg(m, reg_a, reg(m, reg_a) * reg(m, reg_b))

mul(m) == [m EXCEPT !.registers[0] = m.registers[0] * m.registers[1]]

\* a variant of illegal that takes the unknown key for a no-op
illegal_skipped(m) == m

\* self.branch_table[self.ir] with no handler registered for self.ir
illegal(m) == Raise(m, "KeyError")

----------------------------------------------------------------------------
(* CPU.run. *)

\* the advance of PC after the handler returned
advance(m, key) ==
    IF m.status # "running" \/ key \in {CALL, RET, JMP} THEN m
    ELSE IF ~InRam(m.pc) THEN Raise(m, "IndexError")
    ELSE [m EXCEPT !.pc = m.pc + OpCount(ram_read(m, m.pc)) + 1]

\* the byte at PC and its two operand bytes, as the running machine holds them
Byte == ram_read(Machine, pc)
Key == OpKey(Byte)
Operand1 == ram_read(Machine, pc + 1)
Operand2 == ram_read(Machine, pc + 2)

Fetch(op) ==
    /\ status = "running"
    /\ steps < MaxSteps
    /\ InRam(pc)
    /\ Key = op

\* what an iteration fetched and the state it started from; hpc is PC as the
\* handler left it, before the advance
Snapshot(handled) ==
    [fetched |-> TRUE, ir |-> Key, byte |-> Byte, pc |-> pc,
     op1 |-> IF InRam(pc + 1) THEN Operand1 ELSE 0,
     op2 |-> IF InRam(pc + 2) THEN Operand2 ELSE 0,
     registers |-> registers, fl |-> fl, hpc |-> handled.pc]

NoSnapshot ==
    [fetched |-> FALSE, ir |-> 0, byte |-> 0, pc |-> 0, op1 |-> 0, op2 |-> 0,
     registers |-> [i \in 0..(NumRegs - 1) |-> IF i = SP THEN SPInit ELSE 0],
     fl |-> 0, hpc |-> 0]

Commit(handled, m) ==
    /\ ram' = m.ram
    /\ registers' = m.registers
    /\ pc' = m.pc
    /\ fl' = m.fl
    /\ out' = m.out
    /\ status' = m.status
    /\ taken' = m.taken
    /\ ir' = Key
    /\ steps' = steps + 1
    /\ last' = Snapshot(handled)
    /\ prev' = last

Step(op, m) == Fetch(op) /\ Commit(m, advance(m, op))

Top(s) == s[Len(s)]
Bal(s, d) == IF s = <<>> THEN s ELSE [s EXCEPT ![Len(s)].bal = @ + d]

Hlt == Step(HLT, hlt(Machine)) /\ UNCHANGED <<calls, spStackOnly>>

Ldi ==
    /\ Step(LDI, ldi(Machine))
    /\ spStackOnly' = (spStackOnly /\ ~(status' = "running" /\ RegMask(Operand1) = SP))
    /\ UNCHANGED calls

Push ==
    /\ Step(PUSH, push(Machine))
    /\ calls' = IF status' = "running" THEN Bal(calls, 1) ELSE calls
    /\ UNCHANGED spStackOnly

Pop ==
    /\ Step(POP, pop(Machine))
    /\ calls' = IF status' = "running" THEN Bal(calls, -1) ELSE calls
    /\ spStackOnly' =
         (spStackOnly /\ ~(status' = "running" /\ Cell(Operand1, NumRegs) = SP))

Prn == Step(PRN, prn(Machine)) /\ UNCHANGED <<calls, spStackOnly>>

Call ==
    /\ Step(CALL, call(Machine))
    /\ calls' = IF status' = "running"
                THEN Append(calls, [site |-> pc, sp |-> registers[SP], bal |-> 0])
                ELSE calls
    /\ UNCHANGED spStackOnly

Ret ==
    /\ Step(RET, ret(Machine))
    /\ calls' = IF status' = "running" /\ calls # <<>>
                THEN SubSeq(calls, 1, Len(calls) - 1)
                ELSE calls
    /\ UNCHANGED spStackOnly

Jmp == Step(JMP, jmp(Machine)) /\ UNCHANGED <<calls, spStackOnly>>

Jeq == Step(JEQ, jeq(Machine)) /\ UNCHANGED <<calls, spStackOnly>>

Jne == Step(JNE, jne(Machine)) /\ UNCHANGED <<calls, spStackOnly>>

Cmp == Step(CMP, cmp(Machine)) /\ UNCHANGED <<calls, spStackOnly>>

Add ==
    /\ Step(ADD, add(Machine))
    /\ spStackOnly' =
         (spStackOnly /\ ~(status' = "running" /\ Cell(Operand1, NumRegs) = SP))
    /\ UNCHANGED calls

Mul == Step(MUL, mul(Machine)) /\ UNCHANGED <<calls, spStackOnly>>

\* the fetched key has no handler: the lookup raises KeyError
Illegal ==
    /\ status = "running"
    /\ steps < MaxSteps
    /\ InRam(pc)
    /\ Key \notin Handlers
    /\ Commit(illegal(Machine), advance(illegal(Machine), Key))
    /\ UNCHANGED <<calls, spStackOnly>>

\* PC is no index of the memory: the fetch raises IndexError
FetchFault ==
    /\ status = "running"
    /\ steps < MaxSteps
    /\ ~InRam(pc)
    /\ status' = "IndexError"
    /\ steps' = steps + 1
    /\ last' = [last EXCEPT !.fetched = FALSE]
    /\ prev' = last
    /\ UNCHANGED <<ram, registers, pc, ir, fl, out, taken, calls, spStackOnly>>

Next ==
    \/ Hlt \/ Ldi \/ Push \/ Pop \/ Prn \/ Call \/ Ret \/ Jmp \/ Jeq \/ Jne
    \/ Cmp \/ Add \/ Mul \/ Illegal \/ FetchFault

----------------------------------------------------------------------------
(* CPU.load: the memory images the runs start from.  A program is a        *)
(* sequence of bytes placed from address 0; a program as long as the       *)
(* memory sets every cell, so an image may also hold bytes further up.     *)

Image(prog, far) ==
    [a \in 0..(RamSize - 1) |->
        IF a \in DOMAIN far THEN far[a]
        ELSE IF a < Len(prog) THEN prog[a + 1] ELSE 0]

Seg(base, seq) == [a \in base..(base + Len(seq) - 1) |-> seq[a - base + 1]]
NoFar == Seg(0, <<>>)

\* an instruction byte: the key in the low six bits, the operand count above
Enc(key, n) == 64 * n + key
I0(key) == <<Enc(key, 0)>>
I1(key, a) == <<Enc(key, 1), a>>
I2(key, a, b) == <<Enc(key, 2), a, b>>

\* CMP then a jump through R2 to a target holding any of several bytes
CmpVals == {0, 1, 255}
Targets == {20, 100, 254, 255}
TargetBytes == {Enc(HLT, 0), Enc(PRN, 1), Enc(LDI, 2), Enc(RET, 0), 0}
Jumps == {JMP, JEQ, JNE, CALL}
JumpPrograms ==
    { Image(I2(LDI, 0, a) \o I2(LDI, 1, b) \o I2(LDI, 2, t) \o pre
              \o I2(CMP, 0, 1) \o I1(j, 2) \o I0(HLT),
            Seg(t, <<tb>>)) :
        a \in CmpVals, b \in CmpVals, t \in Targets, tb \in TargetBytes,
        j \in Jumps, pre \in {<<>>, I2(CMP, 2, 0)} }

\* PUSH ra; POP rb from every stack pointer
StackVals == {5, 255}
StackPrograms ==
    { Image(I2(LDI, SP, s) \o I2(LDI, ra, v) \o I1(PUSH, ra) \o I1(POP, rb)
              \o I1(PRN, rb) \o I0(HLT), NoFar) :
        s \in 0..255, v \in StackVals, ra \in {0, 1}, rb \in {0, 1} }

\* a CALL at several sites to a subroutine that ends in RET
CallSites == {11, 100, 200}
CallSPs == {0, 1, 2, 128, 244, 254, 255}
Subroutines == {I0(RET), I1(PUSH, 1) \o I1(POP, 2) \o I0(RET)}
CallPrograms ==
    { Image(I2(LDI, 4, c - 6) \o I1(JMP, 4),
            Seg(c - 6, I2(LDI, SP, s) \o I2(LDI, 0, c + 6) \o I1(CALL, 0)
                         \o I1(PRN, 2) \o I0(HLT) \o I0(HLT) \o sub)) :
        c \in CallSites, s \in CallSPs, sub \in Subroutines }

\* a CALL that calls itself, the stack pointer starting where __init__ set it
RecursePrograms ==
    { Image(I2(LDI, 0, 248) \o I1(JMP, 0), Seg(248, I1(CALL, 0))) }

\* LDI with every operand byte
LdiVals == {0, 1, 127, 128, 255}
LdiRegs == {0, 7, 8, 15}
LdiPrograms ==
    { Image(I2(CMP, 0, 0) \o I2(LDI, r, v) \o I0(HLT), NoFar) :
        r \in 0..255, v \in LdiVals }
    \cup
    { Image(I2(CMP, 0, 0) \o I2(LDI, r, v) \o I0(HLT), NoFar) :
        r \in LdiRegs, v \in 0..255 }

\* ADD x,y over registers loaded with a and b
AddVals == {0, 1, 100, 200, 255}
AddRegs == {0, 1, 7, 8}
AddPrograms ==
    { Image(I2(LDI, 0, a) \o I2(LDI, 1, b) \o I2(CMP, 0, 1) \o I2(ADD, x, y)
              \o I2(ADD, x, y) \o I0(HLT), NoFar) :
        a \in AddVals, b \in AddVals, x \in AddRegs, y \in AddRegs }

\* LDI R0,8; LDI R1,9; MUL; PRN R0; HLT
\* MUL is encoded with no operand bytes (0x22, instructions['MUL']) or with
\* the two operand bytes of the LS-8 assembler; run masks the count away
MulEncodings == {I0(MUL), I2(MUL, 0, 1)}
MulPrograms ==
    { Image(I2(LDI, 0, 8) \o I2(LDI, 1, 9) \o e \o I1(PRN, 0) \o I0(HLT),
            NoFar) :
        e \in MulEncodings }

\* every byte as an instruction, after the registers and flags were set
BytePrograms ==
    { Image(I2(LDI, 0, 5) \o I2(LDI, 1, 6) \o I2(CMP, 1, 0) \o <<b, 0, 1>>
              \o I0(HLT), NoFar) :
        b \in 0..255 }

\* PRN with operand bytes inside and outside the register file
PrnRegs == {0, 1, 7, 8, 9, 15, 255}
PrnPrograms ==
    { Image(I2(LDI, 1, 9) \o I2(CMP, 1, 0) \o I1(PRN, r) \o I1(PRN, 1)
              \o I0(HLT), NoFar) :
        r \in PrnRegs }

\* CMP, then instructions of every other kind, then a conditional jump
FlagVals == {0, 1}
FlagPrograms ==
    { Image(I2(LDI, 0, a) \o I2(LDI, 1, b) \o I2(LDI, 2, 40) \o I2(CMP, 0, 1)
              \o I2(LDI, 3, 1) \o I1(PUSH, 0) \o I1(POP, 3) \o I2(ADD, 3, 3)
              \o I2(MUL, 0, 1) \o I1(PRN, 0) \o I1(j, 2) \o I0(HLT),
            Seg(40, I0(HLT))) :
        a \in FlagVals, b \in FlagVals, j \in {JEQ, JNE} }

\* the result of ADD or MUL pushed on the stack and popped again
ArithPushPrograms ==
    { Image(I2(LDI, 0, a) \o I2(LDI, 1, b) \o I2(op, 0, 1) \o I1(PUSH, 0)
              \o I1(POP, 2) \o I1(PRN, 2) \o I0(HLT), NoFar) :
        a \in AddVals, b \in AddVals, op \in {ADD, MUL} }

\* two PUSHes then two POPs, and a CALL whose return address is popped
Stack2SPs == {0, 1, 2, 3, 128, 244, 255}
Stack2Programs ==
    { Image(I2(LDI, SP, s) \o I2(LDI, 0, 5) \o I2(LDI, 1, 6) \o I1(PUSH, 0)
              \o I1(PUSH, 1) \o I1(POP, 2) \o I1(POP, 3) \o I1(PRN, 2)
              \o I1(PRN, 3) \o I0(HLT), NoFar) :
        s \in Stack2SPs }
    \cup
    { Image(I2(LDI, SP, s) \o I2(LDI, 4, 50) \o I1(CALL, 4) \o I0(HLT),
            Seg(50, I1(POP, 5) \o I1(PRN, 5) \o I0(HLT))) :
        s \in Stack2SPs }

\* MUL with every operand count and several operand bytes
MulVals == {0, 3, 200}
MulOperands == {<<0, 1>>, <<2, 3>>, <<3, 2>>, <<255, 9>>}
MulOperandPrograms ==
    { Image(I2(LDI, 0, a) \o I2(LDI, 1, b) \o I2(LDI, 2, 7) \o I2(LDI, 3, 11)
              \o I2(CMP, 0, 1) \o <<Enc(MUL, n)>> \o xy \o I0(HLT), NoFar) :
        a \in MulVals, b \in MulVals, n \in 0..3, xy \in MulOperands }

\* instructions whose register operand is the last register or beyond it
OperandKeys == {LDI, PUSH, POP, PRN, CALL, JMP, JEQ, JNE, CMP, ADD}
OperandRegs == {7, 8, 255}
OperandPrograms ==
    { Image(I2(LDI, 0, 5) \o I2(CMP, 0, 0) \o I1(j, 0) \o <<Enc(key, 2), r, r>>
              \o I0(HLT), NoFar) :
        key \in OperandKeys, r \in OperandRegs, j \in {PRN, JNE} }

\* instructions in the last cells of the memory
EdgeCells == {252, 253, 254}
EdgeKeys == Handlers \cup {0}
EdgePrograms ==
    { Image(I2(LDI, 0, t) \o I2(LDI, 1, n) \o I2(CMP, 0, 1) \o I1(JMP, 0),
            Seg(t, <<Enc(key, n)>>)) :
        t \in EdgeCells, key \in EdgeKeys, n \in 0..2 }

Programs ==
    JumpPrograms \cup StackPrograms \cup CallPrograms \cup RecursePrograms
    \cup LdiPrograms \cup AddPrograms \cup MulPrograms \cup BytePrograms
    \cup PrnPrograms \cup FlagPrograms \cup ArithPushPrograms
    \cup Stack2Programs \cup MulOperandPrograms \cup OperandPrograms
    \cup EdgePrograms

Init ==
    /\ ram \in Programs
    /\ registers = [i \in 0..(NumRegs - 1) |-> IF i = SP THEN SPInit ELSE 0]
    /\ pc = 0
    /\ ir = 0
    /\ fl = 0
    /\ status = "running"
    /\ out = <<>>
    /\ steps = 0
    /\ taken = FALSE
    /\ last = NoSnapshot
    /\ prev = NoSnapshot
    /\ calls = <<>>
    /\ spStackOnly = TRUE

Spec == Init /\ [][Next]_vars

\* run is a while True loop: an iteration that can be taken is taken
FairSpec == Spec /\ WF_vars(Next)

----------------------------------------------------------------------------
(* The properties. *)

\* this step is an iteration of the loop that fetches an instruction with key op
Executes(op) ==
    status = "running" /\ InRam(pc) /\ Key = op /\ steps' = steps + 1

\* the registers an instruction names that are not the stack pointer
GeneralReg(i) == i \in 0..(SP - 1)

\* the value of the register an operand byte names, in a snapshot
RegOf(snap, i) == snap.registers[Cell(i, NumRegs)]

\* the address a control transfer assigns to PC: the operand register's value,
\* or for RET the cell the stack pointer names
TransferTarget ==
    IF Key = RET THEN ram_read(Machine, registers[SP])
    ELSE reg(Machine, Operand1)

\* C1: when the handler of CALL, RET, JMP, JEQ or JNE assigned PC, the advance
\* is skipped: the PC of the next fetch is the value the handler assigned, the
\* operand register's value or, for RET, the popped return address.
C1_TransferSkipsAdvance ==
    [][ (/\ status = "running" /\ InRam(pc)
         /\ Key \in {CALL, RET, JMP, JEQ, JNE}
         /\ steps' = steps + 1
         /\ taken')
        => pc' = TransferTarget ]_vars

StackCell(snap) == ByteMask(snap.registers[SP] - 1)

\* C3: PUSH ra completes from every stack pointer in 0x00..0xFF, and a POP rb
\* executed right after it leaves rb equal to the value ra held before the
\* PUSH and SP at its value before the PUSH (ra, rb among R0..R6, neither
\* instruction lying in the stack cell written).
C3_PushPopRestores ==
    /\ (/\ last.fetched /\ last.ir = PUSH
        /\ InRam(last.pc + 1) /\ GeneralReg(last.op1)
        /\ last.registers[SP] \in 0..255)
       => status = "running"
    /\ (/\ prev.fetched /\ prev.ir = PUSH /\ GeneralReg(prev.op1)
        /\ prev.registers[SP] \in 0..255
        /\ last.fetched /\ last.ir = POP /\ GeneralReg(last.op1)
        /\ StackCell(prev) \notin {prev.pc, prev.pc + 1, last.pc, last.pc + 1}
        /\ status = "running")
       => /\ registers[last.op1] = prev.registers[prev.op1]
          /\ registers[SP] = prev.registers[SP]

\* C4: the RET that ends a subroutine whose PUSHes and POPs are balanced
\* leaves PC at the call site + 2 and SP at its value before the CALL, for
\* every starting SP in 0x00..0xFF.
C4_CallRetReturns ==
    [][ (/\ Executes(RET)
         /\ calls # <<>>
         /\ Top(calls).bal = 0
         /\ Top(calls).sp \in 0..255)
        => /\ status' = "running"
           /\ pc' = Top(calls).site + 2
           /\ registers'[SP] = Top(calls).sp ]_vars

\* C5: while register 7 is written only by PUSH, POP, CALL and RET as the
\* stack pointer, SP is within 0x00..0xFF in every reachable state.
C5_SPInByteRange == spStackOnly => registers[SP] \in 0..255

\* the flags a comparison of x with y must leave
FlagOf(x, y) == IF x = y THEN 1 ELSE IF x > y THEN 2 ELSE 4

\* C6: FL is 0 or one of 1, 2, 4 in every reachable state, and after a CMP it
\* is exactly the bit of the comparison's result (Equal 1, Greater 2, Less 4),
\* whatever the flags were before.
C6_OneFlagPerCmp ==
    /\ fl \in {0, 1, 2, 4}
    /\ (last.fetched /\ last.ir = CMP /\ status = "running")
       => fl = FlagOf(RegOf(last, last.op1), RegOf(last, last.op2))

\* a CMP found Greater set and left Less alone
C6_Witness ==
    /\ last.fetched /\ last.ir = CMP /\ status = "running"
    /\ last.fl = 2 /\ fl = 4

\* C7: ADD regA,regB leaves in regA the sum wrapped to eight bits,
\* (regA + regB) mod 256.
C7_AddWraps ==
    (last.fetched /\ last.ir = ADD /\ status = "running")
    => RegOf([registers |-> registers], last.op1) =
          (RegOf(last, last.op1) + RegOf(last, last.op2)) % 256

\* C8: fetching a byte whose key has no handler ends the run in the KeyError
\* stop, which is not the stop of HLT, with registers, flags, memory, PC and
\* output as they were; and no step follows a stop.
C8_IllegalInstructionStops ==
    [][ /\ (status = "running" /\ InRam(pc) /\ Key \notin Handlers
            /\ steps' = steps + 1)
           => /\ status' = "KeyError"
              /\ UNCHANGED <<registers, fl, ram, pc, out>>
        /\ Executes(HLT) => status' = "halted"
        /\ status # "running" => UNCHANGED vars ]_vars

\* the all-zero byte of a cell never written was fetched and stopped the run
C8_Witness ==
    /\ status = "KeyError" /\ last.fetched /\ last.byte = 0
    /\ pc = last.pc /\ registers = last.registers /\ last.fl # 0

\* C9: LDI r,v leaves register r mod 8 holding the byte v and changes no
\* other register, no memory cell and no flag, for every operand byte r.
C9_LdiLoadsMaskedRegister ==
    [][ (Executes(LDI) /\ InRam(pc + 1) /\ InRam(pc + 2))
        => /\ status' = "running"
           /\ registers' = [registers EXCEPT ![Operand1 % 8] = Operand2]
           /\ ram' = ram
           /\ fl' = fl ]_vars

\* LDI with operand byte 15 loaded 127 into register 7, the flags being set
C9_Witness ==
    /\ last.fetched /\ last.ir = LDI /\ status = "running"
    /\ last.op1 = 15 /\ last.op2 = 127
    /\ registers[7] = 127 /\ last.registers[7] # 127 /\ fl = 1

\* C10: ADD a,b changes register a only: every other register, the memory,
\* the flags and the output are unchanged and PC moves to the next
\* instruction.
C10_AddFrame ==
    [][ (/\ Executes(ADD) /\ InRam(pc + 1) /\ InRam(pc + 2)
         /\ InRegs(Operand1) /\ InRegs(Operand2))
        => /\ status' = "running"
           /\ \A i \in 0..(NumRegs - 1) :
                 i # Cell(Operand1, NumRegs) => registers'[i] = registers[i]
           /\ ram' = ram
           /\ fl' = fl
           /\ out' = out
           /\ pc' = pc + 1 + OpCount(Byte) ]_vars

\* ADD R0,R1 changed R0 and left a different, non-zero R1 and set flags alone
C10_Witness ==
    /\ last.fetched /\ last.ir = ADD /\ status = "running"
    /\ last.op1 = 0 /\ last.op2 = 1
    /\ registers[0] # last.registers[0]
    /\ registers[1] = 100 /\ fl # 0

\* the ways the loop of CPU.run is left by an exception that is not SystemExit
ErrorStops == {"KeyError", "IndexError", "Exception"}

\* C11: the run stops with success only by executing HLT, which changes
\* nothing else; every other stop is an error stop; after a stop no step is
\* taken; and a run that has not stopped always has a next iteration (within
\* the iterations the model follows).
C11_StopsOnlyByHltOrError ==
    /\ [](status = "running" /\ steps < MaxSteps => ENABLED Next)
    /\ [][ /\ Executes(HLT)
              => /\ status' = "halted"
                 /\ UNCHANGED <<ram, registers, pc, fl, out>>
           /\ (status = "running" /\ status' = "halted") => Executes(HLT)
           /\ (status = "running" /\ status' # "running" /\ ~Executes(HLT))
              => status' \in ErrorStops
           /\ status # "running" => UNCHANGED vars ]_vars

\* HLT stopped a run that had printed a value
C11_Witness ==
    /\ status = "halted" /\ last.fetched /\ last.ir = HLT
    /\ pc = last.pc /\ out # <<>>

\* C12: the program LDI R0,8; LDI R1,9; MUL; PRN R0; HLT, loaded at address
\* 0, never stops on an error and eventually halts through HLT with the
\* output sequence exactly <<72>>; it prints nothing but 72 on the way.
C12_MulProgramPrints72 ==
    /\ [](ram \in MulPrograms
            => /\ status \in {"running", "halted"}
               /\ out \in {<<>>, <<72>>}
               /\ status = "halted" => out = <<72>>)
    /\ (ram \in MulPrograms /\ steps = 0)
          ~> (status = "halted" /\ out = <<72>>)

C12_Witness ==
    /\ ram \in MulPrograms /\ status = "halted" /\ out = <<72>>
    /\ last.fetched /\ last.ir = HLT /\ registers[0] = 72

\* C13: the output grows only by PRN: a PRN that read its operand appends the
\* value of the register the operand byte names, its index masked to 0..7, at
\* the end of the output and changes no register, memory cell or flag; every
\* other step, a PRN stopped by its operand read included, leaves the output
\* as it was.
C13_OutputIsPrnValues ==
    [][ /\ (Executes(PRN) /\ InRam(pc + 1))
           => /\ out' = Append(out, registers[RegMask(Operand1)])
              /\ UNCHANGED <<registers, ram, fl>>
        /\ ~(Executes(PRN) /\ InRam(pc + 1)) => out' = out ]_vars

C13_Witness ==
    /\ status = "running" /\ last.fetched
    /\ last.ir = PRN /\ last.op1 = 1
    /\ prev.fetched /\ prev.ir = PRN /\ prev.op1 = 9
    /\ out = <<9, 9>>

\* the steps that are no control transfer: the handler returned and did not
\* assign PC
Sequential ==
    /\ status = "running" /\ InRam(pc) /\ steps' = steps + 1
    /\ Key \in {LDI, PUSH, POP, PRN, CMP, ADD, MUL, JEQ, JNE}
    /\ status' = "running" /\ ~taken'

\* C14: after an instruction that is no control transfer (LDI, PUSH, POP, PRN,
\* CMP, ADD, MUL, untaken JEQ, untaken JNE) the next PC is the old PC + 1 + the
\* operand count in the top two bits of the byte that was fetched, also when
\* the handler wrote to memory.
C14_AdvanceByFetchedByte ==
    [][ Sequential => pc' = pc + 1 + OpCount(Byte) ]_vars

\* the address of the stack access of the instruction at PC: push masks the
\* decremented stack pointer, call does not, pop and ret use it as it is
StackAddress ==
    IF Key = PUSH THEN ByteMask(registers[SP] - 1)
    ELSE IF Key = CALL THEN registers[SP] - 1
    ELSE registers[SP]

\* the addresses the instruction at PC hands to ram_read and ram_write, in the
\* order of the code
Addresses ==
    IF ~InRam(pc) THEN <<pc>>
    ELSE IF Key = LDI THEN <<pc, pc + 2, pc + 1>>
    ELSE IF Key = PUSH
    THEN IF InRam(pc + 1) /\ InRegs(Operand1)
         THEN <<pc, pc + 1, StackAddress>>
         ELSE <<pc, pc + 1>>
    ELSE IF Key = POP THEN <<pc, StackAddress, pc + 1>>
    ELSE IF Key = CALL THEN <<pc, StackAddress, pc + 1>>
    ELSE IF Key = RET THEN <<pc, StackAddress>>
    ELSE IF Key \in {PRN, JMP} THEN <<pc, pc + 1>>
    ELSE IF Key = JEQ /\ EqualSet(fl) THEN <<pc, pc + 1>>
    ELSE IF Key = JNE /\ EqualClear(fl) THEN <<pc, pc + 1>>
    ELSE IF Key \in {CMP, ADD} THEN <<pc, pc + 1, pc + 2>>
    ELSE <<pc>>

\* the accesses that happen: an access that raises ends the instruction
Accessed ==
    { Addresses[i] : i \in { j \in 1..Len(Addresses) :
                               \A k \in 1..(j - 1) : InRam(Addresses[k]) } }

\* C15: every memory access of every instruction (the fetch at PC, the operand
\* reads at PC+1 and PC+2, the stack reads and writes at SP) is at an address
\* in 0..254, the 255 cells of the memory.
C15_AccessesInsideMemory ==
    [][ (status = "running" /\ steps' = steps + 1)
        => \A a \in Accessed : a \in 0..(RamSize - 1) ]_vars

\* an instruction with one operand byte that lies inside the memory and names
\* one of R0..R6, executed with the stack pointer in 0x00..0xFF
StackStep(op) ==
    /\ Executes(op)
    /\ pc + 1 \in 0..(RamSize - 1)
    /\ GeneralReg(Operand1)
    /\ registers[SP] \in 0..255

\* C16: the stack is pre-decrement and post-increment: PUSH moves SP to
\* (SP - 1) mod 256 and writes the register's value into that cell, POP loads
\* the register from the cell at SP and then increments SP, so that pushes
\* followed by as many pops hand the values back in reverse order.
C16_PreDecrementPostIncrement ==
    [][ /\ StackStep(PUSH)
           => /\ status' = "running"
              /\ registers'[SP] = ByteMask(registers[SP] - 1)
              /\ InRam(registers'[SP])
              /\ ram'[Cell(registers'[SP], RamSize)] = registers[Operand1]
        /\ StackStep(POP)
           => /\ status' = "running"
              /\ InRam(registers[SP])
              /\ registers'[Operand1] = ram[Cell(registers[SP], RamSize)]
              /\ registers'[SP] = registers[SP] + 1 ]_vars


\* a conditional jump whose operand byte can be read and names a register
JumpStep(op) ==
    Executes(op) /\ InRam(pc + 1) /\ InRegs(Operand1)

\* C17: only CMP writes the flags: every step of any other instruction (HLT,
\* LDI, PUSH, POP, PRN, CALL, RET, JMP, JEQ, JNE, ADD, MUL, an unknown key)
\* leaves FL as it was, and JEQ jumps exactly when the Equal bit of FL is set,
\* JNE exactly when it is clear; so the decision is that of the last CMP.
C17_OnlyCmpWritesFlags ==
    [][ /\ (steps' = steps + 1 /\ ~Executes(CMP)) => fl' = fl
        /\ JumpStep(JEQ) => (taken' <=> fl % 2 = 1)
        /\ JumpStep(JNE) => (taken' <=> fl % 2 = 0) ]_vars

\* a JEQ taken on the Equal flag a CMP left seven instructions earlier
C17_Witness ==
    /\ status = "running" /\ taken /\ fl = 1 /\ last.hpc = 40
    /\ last.fetched /\ last.ir = JEQ /\ last.fl = 1
    /\ prev.fetched /\ prev.ir = PRN /\ prev.fl = 1
    /\ ram \in FlagPrograms


\* C18: memory is a sequence of bytes: in every reachable state every cell
\* holds a value in 0..255, whatever LDI, ADD, MUL, PUSH and CALL have run.
C18_MemoryHoldsBytes ==
    \A a \in 0..(RamSize - 1) : ram[a] \in 0..255


\* C19: MUL ignores its operand bytes: whatever bytes follow the opcode, it
\* sets R0 to R0 * R1 and changes no other register, no memory cell, no flag
\* and no output, and PC advances by 1 + the operand count in the top two
\* bits of the opcode byte.
C19_MulFixedRegisters ==
    [][ Executes(MUL)
        => /\ status' = "running"
           /\ registers' = [registers EXCEPT ![0] = registers[0] * registers[1]]
           /\ UNCHANGED <<ram, fl, out>>
           /\ pc' = pc + 1 + OpCount(Byte) ]_vars

\* MUL R2,R3 with R0 = 3, R1 = 200, R2 = 7, R3 = 11 left 600 in R0
C19_Witness ==
    /\ status = "running" /\ last.fetched /\ last.ir = MUL
    /\ last.byte = Enc(MUL, 2) /\ last.op1 = 2 /\ last.op2 = 3
    /\ last.registers[0] = 3 /\ last.registers[1] = 200
    /\ registers[0] = 600 /\ registers[2] = 7 /\ registers[3] = 11
    /\ pc = last.pc + 3


\* C20: an instruction that ends in an error stop because its register operand
\* byte is outside 0..7 or because a memory address it uses is outside the
\* memory leaves the machine as it was: no register, SP included, no memory
\* cell, no flag and not PC has changed.
C20_FailedInstructionChangesNothing ==
    [][ (status = "running" /\ status' = "IndexError")
        => UNCHANGED <<registers, ram, fl, pc>> ]_vars

====================================================================
